---- MODULE Spec2Model ----
(***************************************************************************)
(* State-machine model of server.js: the Express handlers of the          *)
(* SanctoMind relay (datastore probe, chat, quiz, generate, checklist),   *)
(* each request suspended during its external call and resumed when the   *)
(* call settles, with any number of requests in flight.                   *)
(***************************************************************************)
EXTENDS Naturals, Sequences, FiniteSets

\* ------------------------------------------------------------------ bounds
NumReq == 2      \* request slots that can be in flight at the same time
MaxTasks == 2    \* longest `tasks` array a checklist request carries
PoolMax == 2     \* connections the pg pool hands out before connect() waits

Req == 1..NumReq

\* ------------------------------------------------------- JavaScript values
\* A field that is absent from the JSON body reads as undefined.
Undefined == "undefined"

\* Truthiness of a string-or-undefined value (`!x`, `x || y`).
Truthy(v) == v \notin {Undefined, ""}

\* ----------------------------------------------------------- request bodies
\* `answers` as sent by the client, by JSON kind.
AnswerKinds == {"absent", "null", "emptyString", "emptyObject", "object"}

\* Mutant: an empty mapping counts as no answers.
AnswersTruthy_NonEmpty(a) == a = "object"

\* Truthiness of `answers`: objects (even empty) are truthy; undefined,
\* null and "" are falsy.
AnswersTruthy(a) == a \in {"emptyObject", "object"}

RECURSIVE SeqsUpTo(_)
SeqsUpTo(n) ==
  IF n = 0 THEN {<<>>}
  ELSE LET S == SeqsUpTo(n - 1)
       IN  S \cup {Append(s, b) : s \in {t \in S : Len(t) = n - 1}, b \in BOOLEAN}

\* tasks: absent, or an array of {done}. `arr[i]` is task i's `done`.
TaskValues ==
  {[present |-> FALSE, arr |-> <<>>]} \cup
  {[present |-> TRUE, arr |-> s] : s \in SeqsUpTo(MaxTasks)}

NoTasks == [present |-> FALSE, arr |-> <<>>]

Body(m, d, t, a, k) ==
  [message |-> m, disorder |-> d, type |-> t, answers |-> a, tasks |-> k]

EmptyBody == Body(Undefined, Undefined, Undefined, "absent", NoTasks)

ChatBodies ==
  {Body(m, Undefined, Undefined, "absent", NoTasks) : m \in {Undefined, "", "hi"}}

SpecialisedBodies ==
  {Body(m, d, Undefined, "absent", NoTasks) :
     m \in {Undefined, "", "hi"}, d \in {Undefined, "OCD"}}

QuizBodies ==
  {Body(Undefined, "OCD", t, a, NoTasks) :
     t \in {Undefined, "progress", "diagnosis"}, a \in AnswerKinds}

\* `tasks` accompanies a "remarks" request; the other types send none.
ChecklistBodies ==
  {Body(Undefined, d, t, "absent", NoTasks) :
     d \in {Undefined, "OCD"}, t \in {Undefined, "checklist", "other"}} \cup
  {Body(Undefined, d, "remarks", "absent", k) :
     d \in {Undefined, "OCD"}, k \in TaskValues}

\* --------------------------------------------------------- provider results
\* What the awaited generateContent() settles with.  A resolved result has a
\* response whose candidate/content/part/text chain stops at `shape`, and
\* whose SDK helper text() gives `sdkText` (for a response without text the
\* helper is outside this program: it returns "" or throws).  A rejected call
\* carries the error's `status` (0: the error has no status property) and its
\* errorDetails.
Throws == "<throws>"

RetryInfo == [type |-> "type.googleapis.com/google.rpc.RetryInfo", retryDelay |-> "30s"]
QuotaFailure == [type |-> "type.googleapis.com/google.rpc.QuotaFailure", retryDelay |-> Undefined]

Resolved(shape, t) ==
  [ok |-> TRUE, shape |-> shape, sdkText |-> t, status |-> 0, errorDetails |-> <<>>]

Rejected(st, details) ==
  [ok |-> FALSE, shape |-> "none", sdkText |-> Throws, status |-> st, errorDetails |-> details]

AbsentShapes == {"noCandidates", "noContent", "noParts", "emptyText"}

\* A resolved result whose text() agrees with the response's text.
Plain(shape) == Resolved(shape, IF shape = "text" THEN "Hello" ELSE "")

\* Results of the three chat endpoints' calls (their handlers read the
\* response chain and the error's status).
ChatResults ==
  {Plain(s) : s \in {"text"} \cup AbsentShapes} \cup
  {Rejected(st, <<>>) : st \in {503, 429, 500, 0}}

\* Results of the quiz call (its handler reads the response chain only).
QuizResults ==
  {Plain(s) : s \in {"text"} \cup AbsentShapes} \cup
  {Rejected(st, <<>>) : st \in {503, 0}}

\* Results of the checklist call (its handler reads text() only).
ChecklistResults ==
  {Plain("text")} \cup
  {Resolved(s, t) : s \in AbsentShapes, t \in {"", Throws}} \cup
  {Rejected(st, <<>>) : st \in {503, 0}}

\* Conditions of the provider while POST /generate is handled (the handler
\* would read the error's status and errorDetails).
GenerateResults ==
  {Plain("text"), Rejected(503, <<>>), Rejected(0, <<>>)} \cup
  {Rejected(429, d) : d \in {<<>>, <<QuotaFailure>>, <<QuotaFailure, RetryInfo>>}}

NoResult == [ok |-> FALSE, shape |-> "none", sdkText |-> Throws, status |-> 0, errorDetails |-> <<>>]

\* An exception raised by the JavaScript runtime (TypeError, ReferenceError):
\* an error object without status or errorDetails.
RuntimeError == Rejected(0, <<>>)

\* result.response?.candidates?.[0]?.content?.parts?.[0]?.text
ExtractText(result) ==
  CASE result.shape = "text" -> "Hello"
    [] result.shape = "emptyText" -> ""
    [] OTHER -> Undefined

\* ---------------------------------------------------------------- responses
\* A sent response: status, the JSON field that carries the text, the text
\* (written without the emoji the source strings start with).
Response(st, f, t) == [status |-> st, field |-> f, text |-> t]

NoResponse == Response(0, "", "")

\* ------------------------------------------------------------------ prompts
Prompt(v, u, c, n) == [variant |-> v, user |-> u, completed |-> c, total |-> n]

NoPrompt == Prompt("none", Undefined, 0, 0)


\* ------------------------------------------------------------------- state
VARIABLES
  pc,          \* pc[r]: "idle", "connecting", "querying", "awaiting", "done"
  req,         \* req[r]: the request's endpoint and parsed JSON body
  prompt,      \* prompt[r]: the prompt the handler built
  calls,       \* calls[r]: provider invocations made for the request
  outcome,     \* outcome[r]: how the request's external call settled; for a
               \* handler that never awaits, the provider's condition while
               \* the request was handled
  resp,        \* resp[r]: the response the client received
  sent,        \* sent[r]: responses the handler sent for the request
  checkedOut   \* connections currently checked out of the pool

vars == <<pc, req, prompt, calls, outcome, resp, sent, checkedOut>>

Endpoints ==
  {"test-db", "chat", "general-chat", "specialised-chat", "quiz", "generate",
   "checklist-response"}

Init ==
  /\ pc = [r \in Req |-> "idle"]
  /\ req = [r \in Req |-> [ep |-> "none", body |-> EmptyBody]]
  /\ prompt = [r \in Req |-> NoPrompt]
  /\ calls = [r \in Req |-> 0]
  /\ outcome = [r \in Req |-> NoResult]
  /\ resp = [r \in Req |-> NoResponse]
  /\ sent = [r \in Req |-> 0]
  /\ checkedOut = 0

\* ------------------------------------------------------- handler scaffolding
\* Express hands a new request to its handler; the slot of a request that was
\* answered is free for the next one.
Arrive(r, ep, b) ==
  /\ pc[r] \in {"idle", "done"}
  /\ req' = [req EXCEPT ![r] = [ep |-> ep, body |-> b]]

\* The handler ends in the tick it started in: it sends `sends` without
\* having awaited the provider.
AnswerNow(r, sends, res) ==
  /\ pc' = [pc EXCEPT ![r] = "done"]
  /\ prompt' = [prompt EXCEPT ![r] = NoPrompt]
  /\ calls' = [calls EXCEPT ![r] = 0]
  /\ outcome' = [outcome EXCEPT ![r] = res]
  /\ resp' = [resp EXCEPT ![r] = Head(sends)]
  /\ sent' = [sent EXCEPT ![r] = Len(sends)]

\* `await model.generateContent(p)`: one provider invocation, handler suspended.
CallProvider(r, p) ==
  /\ pc' = [pc EXCEPT ![r] = "awaiting"]
  /\ prompt' = [prompt EXCEPT ![r] = p]
  /\ calls' = [calls EXCEPT ![r] = 1]
  /\ outcome' = [outcome EXCEPT ![r] = NoResult]
  /\ resp' = [resp EXCEPT ![r] = NoResponse]
  /\ sent' = [sent EXCEPT ![r] = 0]

\* The awaited call settled with `res`; the handler resumes and sends `sends`.
Settle(r, res, sends) ==
  /\ pc[r] = "awaiting"
  /\ pc' = [pc EXCEPT ![r] = "done"]
  /\ outcome' = [outcome EXCEPT ![r] = res]
  /\ resp' = [resp EXCEPT ![r] = Head(sends)]
  /\ sent' = [sent EXCEPT ![r] = sent[r] + Len(sends)]
  /\ UNCHANGED <<req, prompt, calls, checkedOut>>

\* `x || fallback`
OrElse(v, fallback) == IF Truthy(v) THEN v ELSE fallback

\* ------------------------------------------------------- GET /api/test-db
TestDb(r) ==
  /\ Arrive(r, "test-db", EmptyBody)
  /\ pc' = [pc EXCEPT ![r] = "connecting"]
  /\ prompt' = [prompt EXCEPT ![r] = NoPrompt]
  /\ calls' = [calls EXCEPT ![r] = 0]
  /\ outcome' = [outcome EXCEPT ![r] = NoResult]
  /\ resp' = [resp EXCEPT ![r] = NoResponse]
  /\ sent' = [sent EXCEPT ![r] = 0]
  /\ UNCHANGED checkedOut

\* pool.connect() resolves: a connection is checked out.  With every
\* connection checked out connect() keeps waiting.
PoolConnectOk(r) ==
  /\ pc[r] = "connecting"
  /\ checkedOut < PoolMax
  /\ checkedOut' = checkedOut + 1
  /\ pc' = [pc EXCEPT ![r] = "querying"]
  /\ UNCHANGED <<req, prompt, calls, outcome, resp, sent>>

TestDbCatch == <<Response(500, "error", "DB connection failed")>>

\* pool.connect() rejects (datastore unreachable): no connection was acquired.
PoolConnectFail(r) ==
  /\ pc[r] = "connecting"
  /\ pc' = [pc EXCEPT ![r] = "done"]
  /\ outcome' = [outcome EXCEPT ![r] = RuntimeError]
  /\ resp' = [resp EXCEPT ![r] = Head(TestDbCatch)]
  /\ sent' = [sent EXCEPT ![r] = sent[r] + Len(TestDbCatch)]
  /\ UNCHANGED <<req, prompt, calls, checkedOut>>

\* client.query resolves: client.release(), then res.json({now}).
QueryOk(r) ==
  /\ pc[r] = "querying"
  /\ checkedOut' = checkedOut - 1
  /\ pc' = [pc EXCEPT ![r] = "done"]
  /\ outcome' = [outcome EXCEPT ![r] = Resolved("text", "now")]
  /\ resp' = [resp EXCEPT ![r] = Response(200, "now", "now")]
  /\ sent' = [sent EXCEPT ![r] = sent[r] + 1]
  /\ UNCHANGED <<req, prompt, calls>>

\* client.query rejects: control jumps from line 40 to the catch block, past
\* client.release() on line 41.
QueryFail(r) ==
  /\ pc[r] = "querying"
  /\ pc' = [pc EXCEPT ![r] = "done"]
  /\ outcome' = [outcome EXCEPT ![r] = RuntimeError]
  /\ resp' = [resp EXCEPT ![r] = Head(TestDbCatch)]
  /\ sent' = [sent EXCEPT ![r] = sent[r] + Len(TestDbCatch)]
  /\ UNCHANGED <<req, prompt, calls, checkedOut>>


\* ------------------------------------------------------- POST /api/chat
\* Mutant: the message is kept in a variable shared by the handlers (here the
\* one the first slot's request wrote) instead of a local of the request.
ChatPrompt_Shared(b) == Prompt("verbatim", req[1].body.message, 0, 0)

\* The message is the prompt, verbatim (no validation).
ChatPrompt(b) == Prompt("verbatim", b.message, 0, 0)

ChatReply(result) ==
  <<Response(200, "reply", OrElse(ExtractText(result), "No reply received from Gemini."))>>

\* Mutant: the 503 branch without its `return` falls through to the 500 send.
ChatCatch_NoReturn(error) ==
  IF error.status = 503
  THEN <<Response(503, "reply", "Gemini servers are busy, please try again later."),
         Response(500, "reply", "Sorry, something went wrong on the server.")>>
  ELSE <<Response(500, "reply", "Sorry, something went wrong on the server.")>>

ChatCatch(error) ==
  IF error.status = 503
  THEN <<Response(503, "reply", "Gemini servers are busy, please try again later.")>>
  ELSE <<Response(500, "reply", "Sorry, something went wrong on the server.")>>

Chat(r, b) ==
  /\ Arrive(r, "chat", b)
  /\ CallProvider(r, ChatPrompt(b))
  /\ UNCHANGED checkedOut

ChatSettled(r, res) ==
  /\ req[r].ep = "chat"
  /\ Settle(r, res, IF res.ok THEN ChatReply(res) ELSE ChatCatch(res))

\* ------------------------------------------------------- POST /api/general-chat
\* Mutant: only a missing message is rejected (`=== undefined`), "" passes.
GeneralChatRejects_MissingOnly(b) == b.message = Undefined

\* `if (!userMessage)`
GeneralChatRejects(b) == ~Truthy(b.message)

GeneralChatPrompt(b) == Prompt("general-counsellor", b.message, 0, 0)

GeneralChatReply(result) ==
  <<Response(200, "reply",
             OrElse(ExtractText(result), "Sorry, I couldn't process that. Please try again."))>>

GeneralChatCatch(error) ==
  IF error.status = 503
  THEN <<Response(503, "reply", "Gemini servers are busy, try again later.")>>
  ELSE <<Response(500, "reply", "Something went wrong on the server.")>>

GeneralChat(r, b) ==
  /\ Arrive(r, "general-chat", b)
  /\ IF GeneralChatRejects(b)
     THEN AnswerNow(r, <<Response(400, "reply", "Message cannot be empty.")>>, NoResult)
     ELSE CallProvider(r, GeneralChatPrompt(b))
  /\ UNCHANGED checkedOut

GeneralChatSettled(r, res) ==
  /\ req[r].ep = "general-chat"
  /\ Settle(r, res, IF res.ok THEN GeneralChatReply(res) ELSE GeneralChatCatch(res))

\* ------------------------------------------------------- POST /api/specialised-chat
\* `if (!disorder || !message)`
SpecialisedChatRejects(b) == ~Truthy(b.disorder) \/ ~Truthy(b.message)

SpecialisedChatPrompt(b) == Prompt("specialised-counsellor:" \o b.disorder, b.message, 0, 0)

SpecialisedChatReply(result) ==
  <<Response(200, "reply", OrElse(ExtractText(result), "No reply received from Gemini."))>>

\* Mutant: the catch block without its 503 branch.
SpecialisedChatCatch_Always500(error) ==
  <<Response(500, "reply", "Sorry, something went wrong on the server.")>>

SpecialisedChatCatch(error) ==
  IF error.status = 503
  THEN <<Response(503, "reply", "Gemini servers are busy, please try again later.")>>
  ELSE <<Response(500, "reply", "Sorry, something went wrong on the server.")>>

SpecialisedChat(r, b) ==
  /\ Arrive(r, "specialised-chat", b)
  /\ IF SpecialisedChatRejects(b)
     THEN AnswerNow(r, <<Response(400, "reply", "Disorder and message are required.")>>, NoResult)
     ELSE CallProvider(r, SpecialisedChatPrompt(b))
  /\ UNCHANGED checkedOut

SpecialisedChatSettled(r, res) ==
  /\ req[r].ep = "specialised-chat"
  /\ Settle(r, res, IF res.ok THEN SpecialisedChatReply(res) ELSE SpecialisedChatCatch(res))

\* ------------------------------------------------------- POST /api/quiz
\* `type === "progress" ? "track progress of" : "diagnose"`
QuizWording(type) == IF type = "progress" THEN "track progress of" ELSE "diagnose"

\* `if (!answers)`: generate questions, else evaluate the answers.
QuizPrompt(b) ==
  IF ~AnswersTruthy(b.answers)
  THEN Prompt("quiz-generate:" \o QuizWording(b.type), Undefined, 0, 0)
  ELSE Prompt("quiz-evaluate", b.answers, 0, 0)

QuizReply(result) ==
  <<Response(200, "reply", OrElse(ExtractText(result), "No reply received from Gemini."))>>

QuizCatch(error) == <<Response(500, "reply", "Failed to generate quiz.")>>

Quiz(r, b) ==
  /\ Arrive(r, "quiz", b)
  /\ CallProvider(r, QuizPrompt(b))
  /\ UNCHANGED checkedOut

QuizSettled(r, res) ==
  /\ req[r].ep = "quiz"
  /\ Settle(r, res, IF res.ok THEN QuizReply(res) ELSE QuizCatch(res))


\* ------------------------------------------------------- POST /generate
\* `d['@type']?.includes('RetryInfo')`
IsRetryInfo(d) == d.type \in {"type.googleapis.com/google.rpc.RetryInfo"}

\* `err.errorDetails?.find(d => ...)?.retryDelay`
RECURSIVE FindRetryDelay(_)
FindRetryDelay(details) ==
  IF details = <<>> THEN Undefined
  ELSE IF IsRetryInfo(Head(details)) THEN Head(details).retryDelay
  ELSE FindRetryDelay(Tail(details))

GenerateCatch(err) ==
  IF err.status = 429
  THEN <<Response(429, "error",
                  "Rate limit exceeded. Try again after "
                    \o OrElse(FindRetryDelay(err.errorDetails), "a few seconds") \o ".")>>
  ELSE <<Response(500, "error", "Internal Server Error")>>

\* `generateContent(req.body)`: server.js neither imports nor declares a
\* binding named generateContent, so evaluating the call throws a
\* ReferenceError inside the try block before anything is awaited.
GenerateContent(body) == RuntimeError

\* The whole handler runs in one tick: the thrown error goes to the catch
\* block.  `p` is the provider's condition while the request is handled (what
\* a call would have settled with); the handler never observes it.
Generate(r, p) ==
  /\ Arrive(r, "generate", EmptyBody)
  /\ AnswerNow(r, GenerateCatch(GenerateContent(EmptyBody)), p)
  /\ UNCHANGED checkedOut

\* ------------------------------------------------------- POST /api/checklist-response
\* `tasks.filter(t => t.done).length`
Completed(tasks) == Len(SelectSeq(tasks.arr, LAMBDA done : done))

\* `tasks.length`
Total(tasks) == Len(tasks.arr)

\* Mutant: an empty task list does not count as complete.
AllComplete_NonEmpty(completed, total) == completed = total /\ total > 0

\* `if (completed === total)`
AllComplete(completed, total) == completed = total

RemarksPrompt(b) ==
  IF AllComplete(Completed(b.tasks), Total(b.tasks))
  THEN Prompt("remarks-encouraging", Undefined, Total(b.tasks), Total(b.tasks))
  ELSE Prompt("remarks-consequences", Undefined, Completed(b.tasks), Total(b.tasks))

ChecklistPrompt(b) == Prompt("checklist-5-tasks", Undefined, 0, 0)

ChecklistCatch(err) == <<Response(500, "error", "Failed to generate checklist or remarks")>>

\* `const text = result.response.text(); res.json({ message: text })`: no
\* fallback is substituted; a throwing text() lands in the catch block.
ChecklistReply(result) ==
  IF result.sdkText = Throws
  THEN ChecklistCatch(RuntimeError)
  ELSE <<Response(200, "message", result.sdkText)>>

ChecklistResponse(r, b) ==
  /\ Arrive(r, "checklist-response", b)
  /\ IF ~Truthy(b.disorder)
     THEN AnswerNow(r, <<Response(400, "error", "Disorder is required")>>, NoResult)
     ELSE IF b.type = "checklist"
     THEN CallProvider(r, ChecklistPrompt(b))
     ELSE IF b.type = "remarks"
     THEN IF b.tasks.present
          THEN CallProvider(r, RemarksPrompt(b))
          \* tasks is undefined: `tasks.filter` throws a TypeError, caught below
          ELSE AnswerNow(r, ChecklistCatch(RuntimeError), NoResult)
     ELSE AnswerNow(r, <<Response(400, "error", "Invalid type")>>, NoResult)
  /\ UNCHANGED checkedOut

ChecklistSettled(r, res) ==
  /\ req[r].ep = "checklist-response"
  /\ Settle(r, res, IF res.ok THEN ChecklistReply(res) ELSE ChecklistCatch(res))

\* ------------------------------------------------------------ specification
\* Requests handled one after the other (a single slot), over every body and
\* every result of the input sets.
Next ==
  \E r \in {1} :
    \/ TestDb(r)
    \/ PoolConnectOk(r)
    \/ PoolConnectFail(r)
    \/ QueryOk(r)
    \/ QueryFail(r)
    \/ \E b \in ChatBodies : Chat(r, b)
    \/ \E res \in ChatResults : ChatSettled(r, res)
    \/ \E b \in ChatBodies : GeneralChat(r, b)
    \/ \E res \in ChatResults : GeneralChatSettled(r, res)
    \/ \E b \in SpecialisedBodies : SpecialisedChat(r, b)
    \/ \E res \in ChatResults : SpecialisedChatSettled(r, res)
    \/ \E b \in QuizBodies : Quiz(r, b)
    \/ \E res \in QuizResults : QuizSettled(r, res)
    \/ \E p \in GenerateResults : Generate(r, p)
    \/ \E b \in ChecklistBodies : ChecklistResponse(r, b)
    \/ \E res \in ChecklistResults : ChecklistSettled(r, res)

Spec == Init /\ [][Next]_vars

\* Requests in flight together, suspended during their calls and resumed in
\* any order.  Each endpoint takes a few bodies that tell requests apart, and
\* a result with text and a busy provider.
SomeChatBodies == {b \in ChatBodies : b.message # Undefined}

SomeSpecialisedBodies == {b \in SpecialisedBodies : b.message = "hi"}

SomeQuizBodies ==
  {b \in QuizBodies :
     \/ b.type = "progress" /\ b.answers = "absent"
     \/ b.type = "diagnosis" /\ b.answers = "object"}

SomeChecklistBodies ==
  {b \in ChecklistBodies :
     /\ b.disorder # Undefined
     /\ \/ b.type = "checklist"
        \/ b.type = "remarks" /\ b.tasks.present /\ Len(b.tasks.arr) = 1}

SomeResults(results) ==
  {x \in results : (x.ok /\ x.shape = "text") \/ (~x.ok /\ x.status = 503)}

NextConcurrent ==
  \E r \in Req :
    \/ TestDb(r)
    \/ PoolConnectOk(r)
    \/ PoolConnectFail(r)
    \/ QueryOk(r)
    \/ QueryFail(r)
    \/ \E b \in SomeChatBodies : Chat(r, b)
    \/ \E res \in SomeResults(ChatResults) : ChatSettled(r, res)
    \/ \E b \in SomeChatBodies : GeneralChat(r, b)
    \/ \E res \in SomeResults(ChatResults) : GeneralChatSettled(r, res)
    \/ \E b \in SomeSpecialisedBodies : SpecialisedChat(r, b)
    \/ \E res \in SomeResults(ChatResults) : SpecialisedChatSettled(r, res)
    \/ \E b \in SomeQuizBodies : Quiz(r, b)
    \/ \E res \in SomeResults(QuizResults) : QuizSettled(r, res)
    \/ \E p \in SomeResults(GenerateResults) : Generate(r, p)
    \/ \E b \in SomeChecklistBodies : ChecklistResponse(r, b)
    \/ \E res \in SomeResults(ChecklistResults) : ChecklistSettled(r, res)

SpecConcurrent == Init /\ [][NextConcurrent]_vars


\* ------------------------------------------------------------------ claims
Answered(r) == pc[r] = "done"

InHandler(r, ep) == req[r].ep = ep /\ pc[r] \in {"awaiting", "done"}

\* The provider call of request r was made and was rejected.
ProviderFailed(r) == Answered(r) /\ calls[r] = 1 /\ ~outcome[r].ok

\* C1: every connection the probe acquires is released again on every outcome
\* of the query: once no probe is between connect() and its answer, no
\* connection is checked out of the pool.
C1_ProbeReleasesConnection ==
  (\A r \in Req : ~(req[r].ep = "test-db" /\ pc[r] = "querying")) => checkedOut = 0

\* The validation failures C2 names.
C2_FailsValidation(q) ==
  \/ q.ep = "general-chat" /\ q.body.message \in {Undefined, ""}
  \/ q.ep = "specialised-chat"
       /\ (q.body.disorder = Undefined \/ q.body.message = Undefined)
  \/ q.ep = "checklist-response"
       /\ (q.body.disorder = Undefined \/ q.body.type \notin {"checklist", "remarks"})

\* C2: a request that fails validation is answered 400, with exactly one
\* response, and the provider is never called for it.
C2_ValidationFailureIs400WithoutCall ==
  \A r \in Req :
    C2_FailsValidation(req[r]) =>
      /\ Answered(r)
      /\ resp[r].status = 400
      /\ calls[r] = 0
      /\ prompt[r] = NoPrompt

\* C2 witness: an empty message on general-chat, a missing message on
\* specialised-chat or an unknown type on checklist-response was answered 400.
C2_Witness ==
  \E r \in Req :
    /\ Answered(r)
    /\ resp[r].status = 400
    /\ \/ req[r].ep = "general-chat" /\ req[r].body.message = ""
       \/ req[r].ep = "specialised-chat" /\ req[r].body.message = Undefined
       \/ req[r].ep = "checklist-response" /\ req[r].body.type = "other"
            /\ req[r].body.disorder = "OCD"

\* Requests to a POST endpoint that pass its validation.
C3_PassesValidation(q) ==
  \/ q.ep \in {"chat", "quiz", "generate"}
  \/ q.ep = "general-chat" /\ Truthy(q.body.message)
  \/ q.ep = "specialised-chat" /\ Truthy(q.body.disorder) /\ Truthy(q.body.message)
  \/ q.ep = "checklist-response" /\ Truthy(q.body.disorder)
       /\ q.body.type \in {"checklist", "remarks"}

\* C3: an answered request that passed validation made exactly one provider
\* invocation (never none, never a retry), also when `tasks` is absent.
C3_ValidRequestCallsProviderOnce ==
  \A r \in Req : Answered(r) /\ C3_PassesValidation(req[r]) => calls[r] = 1

\* The fixed replies of the three chat endpoints.
C4_BusyReply(ep) ==
  IF ep = "general-chat" THEN "Gemini servers are busy, try again later."
  ELSE "Gemini servers are busy, please try again later."

C4_ErrorReply(ep) ==
  IF ep = "general-chat" THEN "Something went wrong on the server."
  ELSE "Sorry, something went wrong on the server."

\* C4: on the three chat endpoints a provider failure with status 503 is
\* answered 503 with the endpoint's fixed busy reply (never 500), and any
\* other provider failure is answered 500 with its fixed error reply.
C4_OverloadIs503OtherFailureIs500 ==
  \A r \in Req :
    ProviderFailed(r) /\ req[r].ep \in {"chat", "general-chat", "specialised-chat"} =>
      IF outcome[r].status = 503
      THEN resp[r] = Response(503, "reply", C4_BusyReply(req[r].ep))
      ELSE resp[r] = Response(500, "reply", C4_ErrorReply(req[r].ep))

\* C4 witness: a chat request whose provider call failed with 503 was answered.
C4_Witness ==
  \E r \in Req :
    /\ ProviderFailed(r)
    /\ req[r].ep = "specialised-chat"
    /\ outcome[r].status = 503
    /\ resp[r].status = 503

\* C5: when the provider call resolves with a response that has no text at
\* some level, every provider endpoint answers 200 with a non-empty text.
C5_AbsentTextGetsFallback ==
  \A r \in Req :
    /\ Answered(r)
    /\ calls[r] = 1
    /\ req[r].ep \in {"chat", "general-chat", "specialised-chat", "quiz",
                      "checklist-response"}
    /\ outcome[r].ok
    /\ outcome[r].shape \in AbsentShapes
    => resp[r].status = 200 /\ resp[r].text \notin {"", Undefined}

\* The retry hint C6 expects for a rate-limit error.
C6_Hint(err) ==
  IF \E i \in DOMAIN err.errorDetails : err.errorDetails[i] = RetryInfo
  THEN RetryInfo.retryDelay
  ELSE "a few seconds"

\* C6: POST /generate answers a rate-limited provider with 429 and the retry
\* hint, any other provider failure with 500, and a provider that succeeds
\* with a success response.
C6_GenerateMapsProviderOutcome ==
  \A r \in Req :
    Answered(r) /\ req[r].ep = "generate" =>
      CASE outcome[r].ok -> resp[r].status = 200
        [] ~outcome[r].ok /\ outcome[r].status = 429 ->
             resp[r] = Response(429, "error",
                                "Rate limit exceeded. Try again after "
                                  \o C6_Hint(outcome[r]) \o ".")
        [] OTHER -> resp[r] = Response(500, "error", "Internal Server Error")


\* The tasks of a remarks request that reached the remarks branch.
C7_InRemarks(r) ==
  /\ InHandler(r, "checklist-response")
  /\ req[r].body.type = "remarks"
  /\ req[r].body.tasks.present
  /\ Truthy(req[r].body.disorder)

C7_DoneCount(arr) == Cardinality({i \in DOMAIN arr : arr[i]})

\* C7: a remarks request gets the encouraging prompt exactly when the number
\* of done tasks equals the number of tasks, the consequences prompt
\* otherwise: for a non-empty list, encouraging iff every task is done; an
\* empty list is encouraging.
C7_EncouragingIffCompletedEqualsTotal ==
  \A r \in Req :
    C7_InRemarks(r) =>
      LET arr == req[r].body.tasks.arr
      IN  /\ calls[r] = 1
          /\ prompt[r].variant \in {"remarks-encouraging", "remarks-consequences"}
          /\ prompt[r].variant = "remarks-encouraging" <=> C7_DoneCount(arr) = Len(arr)
          /\ arr # <<>> =>
               (prompt[r].variant = "remarks-encouraging" <=> \A i \in DOMAIN arr : arr[i])
          /\ arr = <<>> => prompt[r].variant = "remarks-encouraging"
          /\ prompt[r].total = Len(arr)
          /\ prompt[r].completed = C7_DoneCount(arr)

\* C7 witness: a remarks request with an empty task list was given the
\* encouraging prompt.
C7_Witness ==
  \E r \in Req :
    /\ C7_InRemarks(r)
    /\ req[r].body.tasks.arr = <<>>
    /\ prompt[r].variant = "remarks-encouraging"

\* C7 witness of the other branch: a task list with an unfinished task was
\* given the consequences prompt.
C7_WitnessConsequences ==
  \E r \in Req :
    /\ C7_InRemarks(r)
    /\ req[r].body.tasks.arr = <<TRUE, FALSE>>
    /\ prompt[r].variant = "remarks-consequences"

\* The wording of the generate-questions prompt for a quiz type.
C8_GenerateVariant(type) ==
  IF type = "progress" THEN "quiz-generate:track progress of" ELSE "quiz-generate:diagnose"

\* C8 as stated: an absent `answers` selects the generate prompt, worded by
\* `type`, and any supplied `answers` value selects the evaluate prompt.
C8_AnyPresentAnswersEvaluates ==
  \A r \in Req :
    InHandler(r, "quiz") =>
      IF req[r].body.answers = "absent"
      THEN prompt[r].variant = C8_GenerateVariant(req[r].body.type)
      ELSE prompt[r].variant = "quiz-evaluate"

\* C8 amended: an absent or falsy `answers` (null, "") selects the generate
\* prompt, worded "track progress of" exactly when type is "progress" and
\* "diagnose" otherwise; a truthy `answers` (any mapping, the empty one
\* included) selects the evaluate prompt.
C8_TruthyAnswersEvaluates ==
  \A r \in Req :
    InHandler(r, "quiz") =>
      /\ calls[r] = 1
      /\ IF req[r].body.answers \in {"absent", "null", "emptyString"}
         THEN prompt[r].variant = C8_GenerateVariant(req[r].body.type)
         ELSE prompt[r].variant = "quiz-evaluate"

\* C8 witness: a quiz request with an empty `answers` mapping was given the
\* evaluate prompt.
C8_Witness ==
  \E r \in Req :
    /\ InHandler(r, "quiz")
    /\ req[r].body.answers = "emptyObject"
    /\ prompt[r].variant = "quiz-evaluate"

\* C9: a handler sends no response while its external call is pending and
\* exactly one once the request is answered, on every path; a failed external
\* call is answered with the handler's own error response.
C9_ExactlyOneResponse ==
  \A r \in Req :
    /\ sent[r] <= 1
    /\ pc[r] \in {"connecting", "querying", "awaiting"} => sent[r] = 0
    /\ Answered(r) => sent[r] = 1 /\ resp[r].status \in {200, 400, 429, 500, 503}
    /\ Answered(r) /\ ~outcome[r].ok /\ (calls[r] = 1 \/ req[r].ep = "test-db") =>
         resp[r].status \in {429, 500, 503} /\ resp[r].text # ""

\* C9 witness: a request whose provider call failed busy was answered once.
C9_Witness ==
  \E r \in Req :
    /\ ProviderFailed(r)
    /\ req[r].ep = "chat"
    /\ outcome[r].status = 503
    /\ sent[r] = 1

\* What a request's handler keeps between its steps.
C10_Locals(r) == <<pc[r], req[r], prompt[r], calls[r], outcome[r], resp[r], sent[r]>>

\* C10: with requests in flight together, two requests with the same endpoint
\* and body built the same prompt and made as many calls, and if their calls
\* settled alike they got the same response ...
C10_SameInputSameResponse ==
  \A r1, r2 \in Req :
    /\ req[r1] = req[r2] /\ pc[r1] \in {"awaiting", "done"} /\ pc[r2] \in {"awaiting", "done"}
         => prompt[r1] = prompt[r2] /\ calls[r1] = calls[r2]
    /\ req[r1] = req[r2] /\ outcome[r1] = outcome[r2] /\ Answered(r1) /\ Answered(r2)
         => resp[r1] = resp[r2]

\* ... and no step of one request changes what another request holds.
C10_StepTouchesOneRequest ==
  Cardinality({r \in Req : C10_Locals(r)' # C10_Locals(r)}) <= 1

====
